---- MODULE Spec2Model ----
(***************************************************************************)
(* Model of the urban-areas pipeline:                                      *)
(*   - DataCollector (scripts/DataCollector.py): the OSM rule table, the   *)
(*     tag -> category lookup and the element loop of info_nearby_op;      *)
(*   - the grouping of classified POIs by category and the per-category    *)
(*     clustering loop, in its two implementations: main() of              *)
(*     scripts/clusterize.py ("scripts") and the module body of            *)
(*     src/clusterize.py ("src").                                          *)
(* Library calls (scikit-learn, alphashape) are nondeterministic choices   *)
(* over the outcomes they can produce.                                     *)
(***************************************************************************)
EXTENDS Integers, Sequences, FiniteSets, TLC

VARIABLES
    \* ---- DataCollector.info_nearby_op ----
    elements,        \* data['elements'] of the Overpass response
    eidx,            \* position of the element loop (next element to process)
    info_nearby,     \* the list of classified POIs collected so far
    cpc,             \* "loop" | "except" | "done" | "idle"
    city,            \* the city name known so far, or "None"
    mappedLog,       \* per processed element: what the key loop returned for it
    \* ---- grouping (clusterize.py, data preparation) ----
    gimpl,           \* which implementation groups: "scripts" | "src"
    gpc,             \* "load" | "grouped" | "aborted" | "idle"
    gcategories,     \* np.unique(y)
    gX_by_category,  \* one point list per category
    \* ---- clustering pipeline (clusterize.py, category loop) ----
    impl,            \* which implementation runs: "scripts" | "src"
    config,          \* config['clustering_techniques']
    categories,      \* categories of the loaded data, in np.unique order
    X_by_category,   \* category -> list of (lat, lon)
    X_cat_subset,    \* category -> its points inside the area, once filtered
    idx,             \* position of the category loop
    labels,          \* the variable `labels` (survives from one iteration to the next)
    clusters_info,   \* category -> (label -> hull ring)
    pc,              \* "loop" | "done" | "aborted" | "idle"
    data,            \* rows handed to the parquet writer
    metrics,         \* category -> "none" | "computed", for the categories scored
    stage,           \* category -> stages the category went through, in order
    error,           \* the exception that ended the run, or "none"
    \* ---- index_to_elasticsearch.py, the loop over config['cities'] ----
    cities,          \* config['cities']: per city the number of rows of its frame
    cityIdx,         \* position of the loop over the cities
    ipc,             \* "connect" | "create" | "bulk" | "done" | "raised" | "idle"
    urban_areas,     \* the index 'urban_areas': whether it exists, and its documents
    batchStart,      \* i of the batch loop of index_data_to_elasticsearch
    \* ---- api.py, create_elasticsearch_client ----
    max_retries,     \* the argument max_retries
    retry_delay,     \* the argument retry_delay
    attempt,         \* the loop variable of range(max_retries)
    kpc,             \* "try" | "sleep" | "returned" | "raised" | "serving" | "failed" | "idle"
    es,              \* what the call returned: "client" | "None"
    es_error,        \* the exception of the last attempt, or "none"
    clock,           \* seconds spent in time.sleep
    attempts_made,   \* connection attempts made so far
    \* ---- DataCollector.info_nearby_op, cache and request ----
    hpc,             \* "start" | "request" | "loop" | "returned" | "idle"
    cityArg,         \* the argument city of the call, or "None"
    cache,           \* city -> the table in ./data/<city>.csv, for the files there
    returned,        \* the table the call returned
    requests,        \* requests sent to the Overpass API so far
    callNo,          \* which call of info_nearby_op this is
    cacheAtStart,    \* cache when the call began
    requestsAtStart  \* requests when the call began

cvars == <<elements, eidx, info_nearby, cpc, city, mappedLog>>
gvars == <<gimpl, gpc, gcategories, gX_by_category>>
pvars == <<impl, config, categories, X_by_category, X_cat_subset, idx, labels,
           clusters_info, pc, data, metrics, stage, error>>
ivars == <<cities, cityIdx, ipc, urban_areas, batchStart>>
kvars == <<max_retries, retry_delay, attempt, kpc, es, es_error, clock, attempts_made>>
hvars == <<hpc, cityArg, cache, returned, requests, callNo, cacheAtStart, requestsAtStart>>
xvars == <<ivars, kvars, hvars>>
outsideIndex == <<cvars, gvars, pvars, kvars, hvars>>
outsideClient == <<cvars, gvars, pvars, ivars, hvars>>
outsideCache == <<gvars, pvars, ivars, kvars>>
vars == <<cvars, gvars, pvars, xvars>>

-----------------------------------------------------------------------------
(* Python values *)

Str(c) == [tag |-> "str", v |-> <<c>>]
Lst(s) == [tag |-> "list", v |-> s]
NoneValue == [tag |-> "none", v |-> <<>>]
Raised == [tag |-> "raise", v |-> <<>>]

Range(s) == {s[i] : i \in DOMAIN s}

\* a table in which the first entry for a key stays
DictLiteralFirstWins(pairs) ==
    LET keys == {pairs[i][1] : i \in DOMAIN pairs}
        first(k) == CHOOSE i \in DOMAIN pairs :
                        pairs[i][1] = k /\ \A j \in DOMAIN pairs : pairs[j][1] = k => i <= j
    IN  [k \in keys |-> pairs[first(k)][2]]

\* A dict literal: a later entry for the same key replaces the earlier one.
RECURSIVE DictPrefix(_, _)
DictPrefix(pairs, n) ==
    IF n = 0 THEN <<>>
    ELSE LET d == DictPrefix(pairs, n - 1)
             k == pairs[n][1]
         IN  [x \in (DOMAIN d) \cup {k} |-> IF x = k THEN pairs[n][2] ELSE d[x]]

DictLiteral(pairs) == DictPrefix(pairs, Len(pairs))

-----------------------------------------------------------------------------
(* DataCollector.osm_mapping, entries in source order *)

NatTour == Lst(<<"Nature", "Tourist">>)

AmenityRules == <<
    <<"bbq", Str("Nature")>>, <<"bench", Str("Nature")>>,
    <<"theatre", Str("Ethnic")>>, <<"place_of_worship", Str("Ethnic")>>,
    <<"cinema", Str("Tourist")>>, <<"fountain", Str("Tourist")>>,
    <<"stage", Str("Tourist")>>, <<"theater", Str("Tourist")>>,
    <<"marketplace", Str("Tourist")>>, <<"public_bath", Str("Tourist")>>,
    <<"cafe", Str("Cafe street")>>, <<"fast_food", Str("Cafe street")>>,
    <<"restaurant", Str("Cafe street")>>,
    <<"bar", Str("Nightlife")>>, <<"biergarten", Str("Nightlife")>>,
    <<"brothel", Str("Nightlife")>>, <<"casino", Str("Nightlife")>>,
    <<"gambling", Str("Nightlife")>>, <<"nightclub", Str("Nightlife")>>,
    <<"stripclub", Str("Nightlife")>>,
    <<"lounge", Str("Elite r.e.")>>,
    <<"prison", Str("Lower r.e.")>>, <<"grave_yard", Str("Lower r.e.")>> >>

BuildingRules == <<
    <<"dormitory", Str("University")>>, <<"college", Str("University")>>,
    <<"school", Str("University")>>, <<"university", Str("University")>>,
    <<"religious", Str("Ethnic")>>, <<"cathedral", Str("Ethnic")>>,
    <<"church", Str("Ethnic")>>, <<"monastery", Str("Ethnic")>>,
    <<"museum", Str("Tourist")>>, <<"public", Str("Tourist")>>,
    <<"stadium", Str("Tourist")>>, <<"grandstand", Str("Tourist")>>,
    <<"ship", Str("Tourist")>>, <<"tower", Str("Tourist")>>,
    <<"office", Str("Business center")>>,
    <<"hotel", Str("Elite r.e.")>>,
    <<"apartments", Str("Upper r.e.")>>, <<"commercial", Str("Upper r.e.")>>,
    <<"government", Str("Upper r.e.")>>,
    <<"residential", Str("Middle r.e.")>>, <<"retail", Str("Middle r.e.")>>,
    <<"supermarket", Str("Middle r.e.")>>, <<"civic", Str("Middle r.e.")>>,
    <<"parking", Str("Middle r.e.")>>, <<"garages", Str("Middle r.e.")>>,
    <<"static_caravan", Str("Lower r.e.")>>, <<"warehouse", Str("Lower r.e.")>>,
    <<"ruins", Str("Lower r.e.")>>,
    <<"bungalow", Str("cottage settlement")>>, <<"cabin", Str("cottage settlement")>>,
    <<"detached", Str("cottage settlement")>>, <<"annexe", Str("cottage settlement")>>,
    <<"farm", Str("cottage settlement")>>, <<"ger", Str("cottage settlement")>>,
    <<"house", Str("cottage settlement")>>,
    <<"semidetached_house", Str("cottage settlement")>>,
    <<"terrace", Str("cottage settlement")>> >>

ClubRules == << <<"*", Str("Tourist")>> >>

EducationRules == << <<"*", Str("University")>> >>

HighwayRules == <<
    <<"living_street", Str("Middle r.e.")>>,
    <<"tertiary", Str("cottage settlement")>>,
    <<"residential", Str("cottage settlement")>> >>

LandcoverRules == << <<"*", Str("Nature")>> >>

HistoricRules == << <<"*", Str("Tourist")>> >>

LanduseRules == << <<"*", Str("Nature")>> >>

LeisureRules == <<
    <<"water_park", NatTour>>, <<"stadium", NatTour>>, <<"park", NatTour>>,
    <<"picnic_table", NatTour>>, <<"firepit", NatTour>>,
    <<"beach_resort", NatTour>>, <<"swimming_area", NatTour>>,
    <<"outdoor_seating", Str("Cafe street")>> >>

ManMadeRules == <<
    <<"advertising", Str("Tourist")>>, <<"obelisk", Str("Tourist")>>,
    <<"*", Str("Lower r.e.")>> >>

NaturalRules == << <<"*", Str("Nature")>> >>

OfficeRules == << <<"*", Str("Business center")>> >>

ShopRules == <<
    <<"boutique", Str("Downtown")>>, <<"jewelry", Str("Downtown")>>,
    <<"leather", Str("Downtown")>>, <<"shoes", Str("Downtown")>>,
    <<"watches", Str("Downtown")>>, <<"perfumery", Str("Downtown")>>,
    <<"butcher", Str("Cafe street")>>, <<"chocolate", Str("Cafe street")>>,
    <<"coffee", Str("Cafe street")>>, <<"seafood", Str("Cafe street")>>,
    <<"alcohol", Str("Cafe street")>>,
    <<"boutique", Str("Elite r.e.")>>,
    <<"beauty", Str("Upper r.e.")>>, <<"hairdresser", Str("Upper r.e.")>>,
    <<"massage", Str("Upper r.e.")>>,
    <<"bakery", Str("Middle r.e.")>>, <<"convenience", Str("Middle r.e.")>>,
    <<"dairy", Str("Middle r.e.")>>, <<"supermarket", Str("Middle r.e.")>>,
    <<"wholesale", Str("Middle r.e.")>>, <<"mall", Str("Middle r.e.")>>,
    <<"chemist", Str("Middle r.e.")>>, <<"doityourself", Str("Middle r.e.")>>,
    <<"second_hand", Str("Lower r.e.")>>, <<"variety_store", Str("Lower r.e.")>>,
    <<"trade", Str("Lower r.e.")>> >>

TourismRules == <<
    <<"hotel", Str("Upper r.e.")>>, <<"hostel", Str("Middle r.e.")>>,
    <<"motel", Str("Middle r.e.")>>, <<"*", Str("Tourist")>> >>

WaterwayRules == << <<"*", Str("Nature")>> >>

\* The keys of osm_mapping, in insertion order (the order of the loop over them).
OsmTypes == <<"amenity", "building", "club", "education", "highway", "landcover",
              "historic", "landuse", "leisure", "man_made", "natural", "office",
              "shop", "tourism", "waterway">>

RulesOf(osm_type) ==
    CASE osm_type = "amenity" -> AmenityRules
      [] osm_type = "building" -> BuildingRules
      [] osm_type = "club" -> ClubRules
      [] osm_type = "education" -> EducationRules
      [] osm_type = "highway" -> HighwayRules
      [] osm_type = "landcover" -> LandcoverRules
      [] osm_type = "historic" -> HistoricRules
      [] osm_type = "landuse" -> LanduseRules
      [] osm_type = "leisure" -> LeisureRules
      [] osm_type = "man_made" -> ManMadeRules
      [] osm_type = "natural" -> NaturalRules
      [] osm_type = "office" -> OfficeRules
      [] osm_type = "shop" -> ShopRules
      [] osm_type = "tourism" -> TourismRules
      [] osm_type = "waterway" -> WaterwayRules

osm_mapping == [t \in Range(OsmTypes) |-> DictLiteral(RulesOf(t))]

-----------------------------------------------------------------------------
(* Python's float() and int() on the tag values the model draws.  A value is
   kept in tenths so that "12.5" is a float and no int. *)

NumericLiterals ==
    ("0" :> 0) @@ ("2" :> 20) @@ ("7" :> 70) @@ ("12" :> 120) @@ ("25" :> 250) @@
    ("10" :> 100) @@ ("35" :> 350) @@ ("70" :> 700) @@ ("12.5" :> 125)

PyFloat(s) ==
    IF s \in DOMAIN NumericLiterals
    THEN [ok |-> TRUE, val |-> NumericLiterals[s]]
    ELSE [ok |-> FALSE, val |-> 0]

PyInt(s) ==
    IF s \in DOMAIN NumericLiterals /\ NumericLiterals[s] % 10 = 0
    THEN [ok |-> TRUE, val |-> NumericLiterals[s] \div 10]
    ELSE [ok |-> FALSE, val |-> 0]

\* float(tags.get(k, 0)) and int(tags.get(k, 0))
FloatTag(tags, k) ==
    IF k \in DOMAIN tags THEN PyFloat(tags[k]) ELSE [ok |-> TRUE, val |-> 0]

IntTag(tags, k) ==
    IF k \in DOMAIN tags THEN PyInt(tags[k]) ELSE [ok |-> TRUE, val |-> 0]

TagGet(tags, k, default) == IF k \in DOMAIN tags THEN tags[k] ELSE default

\* str.lower() on the material and landuse values the model draws
Lower(s) ==
    CASE s = "Glass" -> "glass"
      [] s = "Residential" -> "residential"
      [] OTHER -> s

GlassMaterials == {"glass", "mirrored-glass"}

\* lines 212-216: building=office
OfficeCheck(tags) ==
    LET material == Lower(TagGet(tags, "building:material", ""))
        height == FloatTag(tags, "height")
    IN  IF ~height.ok THEN Raised
        ELSE IF material \in GlassMaterials \/ height.val > 200
             THEN Str("Business center")
             ELSE NoneValue

\* lines 219-224: building=hotel
HotelCheck(tags) ==
    LET levels == IntTag(tags, "levels")
        material == Lower(TagGet(tags, "building:material", ""))
        height == FloatTag(tags, "height")
    IN  IF ~levels.ok \/ ~height.ok THEN Raised
        ELSE IF (levels.val > 20 \/ height.val > 600) \/ material \in GlassMaterials
             THEN Str("Elite r.e.")
             ELSE NoneValue

\* lines 227-237: building=residential
ResidentialCheck(tags) ==
    LET levels == IntTag(tags, "levels")
        height == FloatTag(tags, "height")
    IN  IF ~levels.ok \/ ~height.ok THEN Raised
        ELSE IF levels.val >= 10 \/ height.val >= 300 THEN Str("Upper")
        ELSE IF (5 <= levels.val /\ levels.val < 10)
                \/ (150 <= height.val /\ height.val < 300) THEN Str("Middle")
        ELSE IF levels.val < 5 \/ height.val < 150 THEN Str("Lower")
        ELSE NoneValue

\* lines 240-243: building=house, detached=yes
HouseCheck(tags) ==
    IF TagGet(tags, "detached", "no") = "yes"
    THEN LET landuse == Lower(TagGet(tags, "landuse", ""))
         IN  IF landuse \in {"residential", "village", "farmyard"}
             THEN Str("Cottage settlement")
             ELSE NoneValue
    ELSE NoneValue

\* lines 209-245: the attribute-conditioned checks for a building value
BuildingChecks(osm_value, tags) ==
    IF DOMAIN tags = {} THEN NoneValue
    ELSE CASE osm_value = "office" -> OfficeCheck(tags)
           [] osm_value = "hotel" -> HotelCheck(tags)
           [] osm_value = "residential" -> ResidentialCheck(tags)
           [] osm_value = "house" -> HouseCheck(tags)
           [] OTHER -> NoneValue

\* _get_mapped_category with the wildcard consulted before the exact entries
GetMappedCategoryWildcardFirst(osm_type, osm_value, tags) ==
    IF osm_type \notin DOMAIN osm_mapping THEN NoneValue
    ELSE LET mapping == osm_mapping[osm_type]
         IN  IF "*" \in DOMAIN mapping
             THEN mapping["*"]
             ELSE IF osm_value \in DOMAIN mapping
             THEN mapping[osm_value]
             ELSE IF osm_type = "building"
             THEN BuildingChecks(osm_value, tags)
             ELSE NoneValue

\* _get_mapped_category with the attribute checks of a building ahead of the table
GetMappedCategoryChecksFirst(osm_type, osm_value, tags) ==
    IF osm_type \notin DOMAIN osm_mapping THEN NoneValue
    ELSE LET mapping == osm_mapping[osm_type]
             checked == IF osm_type = "building"
                        THEN BuildingChecks(osm_value, tags)
                        ELSE NoneValue
         IN  IF checked.tag # "none" THEN checked
             ELSE IF "*" \in DOMAIN mapping /\ osm_value \notin DOMAIN mapping
             THEN mapping["*"]
             ELSE IF osm_value \in DOMAIN mapping
             THEN mapping[osm_value]
             ELSE NoneValue

\* _get_mapped_category without the exact-value lookup for buildings
GetMappedCategoryNoExact(osm_type, osm_value, tags) ==
    IF osm_type \notin DOMAIN osm_mapping THEN NoneValue
    ELSE LET mapping == osm_mapping[osm_type]
         IN  IF "*" \in DOMAIN mapping /\ osm_value \notin DOMAIN mapping
             THEN mapping["*"]
             ELSE IF osm_value \in DOMAIN mapping /\ osm_type # "building"
             THEN mapping[osm_value]
             ELSE IF osm_type = "building"
             THEN BuildingChecks(osm_value, tags)
             ELSE NoneValue

\* _get_mapped_category keeping only the first category of a list-valued rule
GetMappedCategoryFirstOfList(osm_type, osm_value, tags) ==
    IF osm_type \notin DOMAIN osm_mapping THEN NoneValue
    ELSE LET mapping == osm_mapping[osm_type]
             full == IF "*" \in DOMAIN mapping /\ osm_value \notin DOMAIN mapping
                     THEN mapping["*"]
                     ELSE IF osm_value \in DOMAIN mapping
                     THEN mapping[osm_value]
                     ELSE IF osm_type = "building"
                     THEN BuildingChecks(osm_value, tags)
                     ELSE NoneValue
         IN  IF full.tag = "list" THEN Str(full.v[1]) ELSE full

\* _get_mapped_category with a default category for a value no rule matches
GetMappedCategoryDefault(osm_type, osm_value, tags) ==
    IF osm_type \notin DOMAIN osm_mapping THEN NoneValue
    ELSE LET mapping == osm_mapping[osm_type]
         IN  IF "*" \in DOMAIN mapping /\ osm_value \notin DOMAIN mapping
             THEN mapping["*"]
             ELSE IF osm_value \in DOMAIN mapping
             THEN mapping[osm_value]
             ELSE Str("Tourist")

\* _get_mapped_category sending building=residential to the attribute checks
GetMappedCategoryTieredResidential(osm_type, osm_value, tags) ==
    IF osm_type \notin DOMAIN osm_mapping THEN NoneValue
    ELSE LET mapping == osm_mapping[osm_type]
         IN  IF osm_type = "building" /\ osm_value = "residential"
             THEN BuildingChecks(osm_value, tags)
             ELSE IF "*" \in DOMAIN mapping /\ osm_value \notin DOMAIN mapping
             THEN mapping["*"]
             ELSE IF osm_value \in DOMAIN mapping
             THEN mapping[osm_value]
             ELSE IF osm_type = "building"
             THEN BuildingChecks(osm_value, tags)
             ELSE NoneValue

\* DataCollector._get_mapped_category
GetMappedCategory(osm_type, osm_value, tags) ==
    IF osm_type \notin DOMAIN osm_mapping THEN NoneValue
    ELSE LET mapping == osm_mapping[osm_type]
         IN  IF "*" \in DOMAIN mapping /\ osm_value \notin DOMAIN mapping
             THEN mapping["*"]
             ELSE IF osm_value \in DOMAIN mapping
             THEN mapping[osm_value]
             ELSE IF osm_type = "building"
             THEN BuildingChecks(osm_value, tags)
             ELSE NoneValue

NoPoiType == <<"None", "None">>

\* The loop over osm_mapping.keys() of info_nearby_op (lines 312-325), after the
\* first n keys: the list built so far, the last poi_type, whether a call raised,
\* and what _get_mapped_category returned for each key met.
RECURSIVE ClassifyKeys(_, _)
ClassifyKeys(tags, n) ==
    IF n = 0
    THEN [raised |-> FALSE, mapped_categories |-> <<>>, poi_type |-> NoPoiType,
          log |-> <<>>]
    ELSE LET prev == ClassifyKeys(tags, n - 1)
             osm_type == OsmTypes[n]
         IN  IF prev.raised \/ osm_type \notin DOMAIN tags THEN prev
             ELSE LET osm_value == tags[osm_type]
                      mapped == GetMappedCategory(osm_type, osm_value, tags)
                      log == [t \in (DOMAIN prev.log) \cup {osm_type} |->
                                IF t = osm_type THEN mapped ELSE prev.log[t]]
                  IN  IF mapped.tag = "raise"
                      THEN [prev EXCEPT !.raised = TRUE, !.log = log]
                      ELSE [raised |-> FALSE,
                            mapped_categories |->
                                IF mapped.tag = "list"
                                THEN prev.mapped_categories \o mapped.v
                                ELSE IF mapped.tag = "str"
                                THEN Append(prev.mapped_categories, mapped.v[1])
                                ELSE prev.mapped_categories,
                            poi_type |-> <<osm_type, osm_value>>,
                            log |-> log]

\* the key loop giving a POI without any category a default one
ClassifyWithDefault(tags) ==
    LET r == ClassifyKeys(tags, Len(OsmTypes))
    IN  IF r.mapped_categories = <<>> /\ ~r.raised
        THEN [r EXCEPT !.mapped_categories = <<"Tourist">>]
        ELSE r

Classify(tags) == ClassifyKeys(tags, Len(OsmTypes))

\* list(set(xs)): the distinct values of xs, in an order the hash seed decides
Orderings(S) == {s \in [1..Cardinality(S) -> S] : Range(s) = S}

\* the list kept as built, duplicates included
ListKeepingDuplicates(xs) == {xs}

ListOfSet(xs) == Orderings(Range(xs))

-----------------------------------------------------------------------------
(* Inputs of the collector: the elements of an Overpass response *)

MaxElems == 2
MaxKeys == 2

Absent == "-"

Present(p) == p[2] # Absent

\* the tags dict holding the pairs whose value is not Absent
MkTags(pairs) == DictLiteral(SelectSeq(pairs, Present))

\* building POIs with every combination of the attributes the checks read
BuildingTagSets ==
    { MkTags(<< <<"building", b>>, <<"building:material", m>>, <<"height", h>>,
                <<"levels", l>>, <<"detached", d>>, <<"landuse", u>> >>) :
        b \in {"office", "hotel", "residential", "house", "yes"},
        m \in {Absent, "glass", "Glass", "brick"},
        h \in {Absent, "10", "25", "35", "70", "tall"},
        l \in {Absent, "2", "7", "12", "25", "12.5", "x"},
        d \in {Absent, "yes"},
        u \in {Absent, "Residential"} }

\* single tags: recognized keys with listed and unlisted values, and keys the
\* rule table does not know
TagPairs ==
    { <<"amenity", "cafe">>, <<"amenity", "school">>, <<"club", "sport">>,
      <<"highway", "residential">>, <<"highway", "primary">>,
      <<"leisure", "park">>, <<"leisure", "stadium">>,
      <<"leisure", "outdoor_seating">>, <<"leisure", "pitch">>,
      <<"man_made", "obelisk">>, <<"man_made", "tower">>, <<"man_made", "*">>,
      <<"shop", "boutique">>, <<"shop", "kiosk">>,
      <<"tourism", "hotel">>, <<"tourism", "zoo">>,
      <<"natural", "tree">>, <<"office", "company">>, <<"building", "tower">>,
      <<"public_transport", "platform">>, <<"healthcare", "clinic">> }

WithTag(t, p) == [k \in (DOMAIN t) \cup {p[1]} |-> IF k = p[1] THEN p[2] ELSE t[k]]

RECURSIVE TagSetsUpTo(_)
TagSetsUpTo(n) ==
    IF n = 0 THEN {<<>>}
    ELSE LET prev == TagSetsUpTo(n - 1)
         IN  prev \cup UNION { { WithTag(t, p) :
                                       p \in {q \in TagPairs : q[1] \notin DOMAIN t} } :
                                   t \in prev }

KeyTagSets == TagSetsUpTo(MaxKeys)

Node(tags, i) == [type |-> "node", tags |-> tags, lat |-> 50 + i, lon |-> 30 + i]

\* the elements a longer response is made of
SmallElements(i) ==
    { Node(MkTags(<< <<"leisure", "park">> >>), i),
      Node(MkTags(<< <<"amenity", "cafe">> >>), i),
      Node(MkTags(<< <<"amenity", "school">> >>), i),
      Node(MkTags(<< <<"leisure", "park">>, <<"tourism", "zoo">> >>), i),
      Node(MkTags(<< <<"place", "city">>, <<"name", "Kazan">> >>), i),
      Node(MkTags(<< <<"amenity", "cafe">>, <<"addr:city", "Kazan">> >>), i),
      Node(MkTags(<< <<"building", "hotel">>, <<"levels", "x">> >>), i),
      [type |-> "way", tags |-> <<>>, lat |-> 50 + i, lon |-> 30 + i] }

RECURSIVE ResponsesOfLen(_)
ResponsesOfLen(n) ==
    IF n = 0 THEN {<<>>}
    ELSE { Append(r, e) : r \in ResponsesOfLen(n - 1), e \in SmallElements(n) }

Responses ==
    { <<Node(t, 1)>> : t \in BuildingTagSets \cup KeyTagSets }
    \cup UNION { ResponsesOfLen(n) : n \in 1..MaxElems }

-----------------------------------------------------------------------------
(* DataCollector.info_nearby_op: one iteration of the loop over data['elements'] *)

\* lines 304-310: the city name found in the tags, for later caching
InferCity(c, tags) ==
    IF c # "None" THEN c
    ELSE LET c1 == IF TagGet(tags, "place", "None") \in {"city", "town", "village", "hamlet"}
                   THEN TagGet(tags, "name", "None")
                   ELSE "None"
         IN  IF "addr:city" \in DOMAIN tags /\ c1 = "None" THEN tags["addr:city"] ELSE c1

Row(element, poi_type, custom) ==
    [Name |-> TagGet(element.tags, "name", "Unnamed"),
     Latitude |-> element.lat,
     Longitude |-> element.lon,
     Categories |-> poi_type,
     Custom |-> custom]

AfterElement == IF eidx = Len(elements) THEN "done" ELSE "loop"

ClassifyElement ==
    /\ cpc = "loop"
    /\ eidx <= Len(elements)
    /\ LET element == elements[eidx]
           r == Classify(element.tags)
       IN  IF "type" \notin DOMAIN element
           THEN \* element['type'] raises KeyError, caught at line 337
                /\ cpc' = "except"
                /\ mappedLog' = Append(mappedLog, [log |-> <<>>, raised |-> TRUE, row |-> 0])
                /\ UNCHANGED <<info_nearby, eidx, city>>
           ELSE IF element.type # "node"
           THEN /\ mappedLog' = Append(mappedLog, [log |-> <<>>, raised |-> FALSE, row |-> 0])
                /\ cpc' = AfterElement
                /\ eidx' = eidx + 1
                /\ UNCHANGED <<info_nearby, city>>
           ELSE /\ city' = InferCity(city, element.tags)
                /\ IF r.raised
                   THEN \* the exception leaves the loop (line 337)
                        /\ cpc' = "except"
                        /\ mappedLog' = Append(mappedLog,
                                [log |-> r.log, raised |-> TRUE, row |-> 0])
                        /\ UNCHANGED <<info_nearby, eidx>>
                   ELSE /\ cpc' = AfterElement
                        /\ eidx' = eidx + 1
                        /\ IF r.mapped_categories # <<>>
                           THEN /\ \E custom \in ListOfSet(r.mapped_categories) :
                                     info_nearby' = Append(info_nearby,
                                         Row(element, r.poi_type, custom))
                                /\ mappedLog' = Append(mappedLog,
                                     [log |-> r.log, raised |-> FALSE,
                                      row |-> Len(info_nearby) + 1])
                           ELSE /\ UNCHANGED info_nearby
                                /\ mappedLog' = Append(mappedLog,
                                     [log |-> r.log, raised |-> FALSE, row |-> 0])
    /\ UNCHANGED <<elements, gvars, pvars, xvars>>

-----------------------------------------------------------------------------
(* Grouping the classified POIs by category (clusterize.py, data preparation) *)

Impls == {"scripts", "src"}

\* np.unique sorts by code point: the categories the classifier can produce
CategoryOrder ==
    <<"Business center", "Cafe street", "Cottage settlement", "Downtown",
      "Elite r.e.", "Ethnic", "Lower", "Lower r.e.", "Middle", "Middle r.e.",
      "Nature", "Nightlife", "Tourist", "University", "Upper", "Upper r.e.",
      "cottage settlement">>

IsCategory(c) == c \in Range(CategoryOrder)

\* np.unique(y)
Unique(y) == SelectSeq(CategoryOrder, LAMBDA c : c \in Range(y))

\* The Custom column as the string the src implementation takes apart:
\* ["A", "B"], one token per name and per punctuation character.
RECURSIVE EncodeItems(_, _)
EncodeItems(custom, n) ==
    IF n = 0 THEN <<>>
    ELSE (IF n = 1 THEN <<>> ELSE EncodeItems(custom, n - 1) \o <<",", " ">>)
         \o <<"\"", custom[n], "\"">>

EncodeCustom(custom) == <<"[">> \o EncodeItems(custom, Len(custom)) \o <<"]">>

NotQuote(t) == t # "\""

\* s.split(',')[0]: the tokens before the first comma
RECURSIVE BeforeComma(_)
BeforeComma(ts) ==
    IF ts = <<>> \/ Head(ts) = "," THEN <<>>
    ELSE <<Head(ts)>> \o BeforeComma(Tail(ts))

\* src/clusterize.py:23   x[2:-2].replace('"','').split(',')[0]
FirstOfString(x) ==
    LET inner == SubSeq(x, 3, Len(x) - 2)
        piece == BeforeComma(SelectSeq(inner, NotQuote))
    IN  IF Len(piece) = 1 THEN piece[1] ELSE "?"

\* the reduction taking the last class of a POI instead of the first
FirstCategoryLast(i, custom) == custom[Len(custom)]

\* the one class each POI is reduced to
FirstCategory(i, custom) ==
    IF i = "scripts" THEN custom[1] ELSE FirstOfString(EncodeCustom(custom))

PointOf(row) == <<row.Latitude, row.Longitude>>

\* X[y == cat]
PointsOf(rows, y, cat) ==
    LET keep == SelectSeq([i \in DOMAIN rows |-> i], LAMBDA i : y[i] = cat)
    IN  [j \in DOMAIN keep |-> PointOf(rows[keep[j]])]

LoadAndGroup ==
    /\ gpc = "load"
    /\ cpc \in {"done", "except"}
    /\ IF info_nearby = <<>>
       THEN \* a frame without rows has no Latitude/Custom column
            /\ gpc' = "aborted"
            /\ UNCHANGED <<gcategories, gX_by_category>>
       ELSE LET y == [i \in DOMAIN info_nearby |->
                        FirstCategory(gimpl, info_nearby[i].Custom)]
                cats == Unique(y)
            IN  /\ gcategories' = cats
                /\ gX_by_category' =
                       [k \in DOMAIN cats |-> PointsOf(info_nearby, y, cats[k])]
                /\ gpc' = "grouped"
    /\ UNCHANGED <<gimpl, cvars, pvars, xvars>>

-----------------------------------------------------------------------------
(* The collector and the grouping as one specification *)

\* the indexing script is not running
IndexIdle ==
    /\ cities = <<>>
    /\ cityIdx = 0
    /\ ipc = "idle"
    /\ urban_areas = [exists |-> FALSE, docs |-> {}]
    /\ batchStart = 0

\* no client is being created
ClientIdle ==
    /\ max_retries = 0
    /\ retry_delay = 0
    /\ attempt = 0
    /\ kpc = "idle"
    /\ es = "None"
    /\ es_error = "none"
    /\ clock = 0
    /\ attempts_made = 0

\* info_nearby_op is entered past its cache and request part
CacheIdle ==
    /\ hpc = "idle"
    /\ cityArg = "None"
    /\ cache = <<>>
    /\ returned = <<>>
    /\ requests = 0
    /\ callNo = 0
    /\ cacheAtStart = <<>>
    /\ requestsAtStart = 0

ServicesIdle == IndexIdle /\ ClientIdle /\ CacheIdle

PipelineIdle ==
    /\ impl = "scripts"
    /\ config = <<>>
    /\ categories = <<>>
    /\ X_by_category = <<>>
    /\ X_cat_subset = <<>>
    /\ idx = 0
    /\ labels = <<>>
    /\ clusters_info = <<>>
    /\ pc = "idle"
    /\ data = <<>>
    /\ metrics = <<>>
    /\ stage = <<>>
    /\ error = "none"

InitCollect ==
    /\ elements \in Responses
    /\ eidx = 1
    /\ info_nearby = <<>>
    /\ cpc = "loop"
    /\ city = "None"
    /\ mappedLog = <<>>
    /\ gimpl \in Impls
    /\ gpc = "load"
    /\ gcategories = <<>>
    /\ gX_by_category = <<>>
    /\ PipelineIdle
    /\ ServicesIdle

NextCollect == ClassifyElement \/ LoadAndGroup

SpecCollect == InitCollect /\ [][NextCollect]_vars

-----------------------------------------------------------------------------
(* The clustering pipeline: configuration, data and area of interest *)

\* general_parameters of clustering.yaml: the query center and the half diagonal
general_parameters == [latitude |-> 5, longitude |-> 5, half_diagonal_coor |-> 2]

search_lat == general_parameters.latitude
search_long == general_parameters.longitude
half_diagonal == general_parameters.half_diagonal_coor

lat_min == search_lat - half_diagonal
lat_max == search_lat + half_diagonal
long_min == search_long - half_diagonal
long_max == search_long + half_diagonal

\* the mask with exclusive bounds
InAreaExclusive(p) ==
    /\ p[1] > lat_min /\ p[1] < lat_max
    /\ p[2] > long_min /\ p[2] < long_max

\* the mask of the category loop: inclusive bounds on the raw coordinates
InArea(p) ==
    /\ p[1] >= lat_min /\ p[1] <= lat_max
    /\ p[2] >= long_min /\ p[2] <= long_max

\* a filter whose lower latitude bound is taken from the data handed to it: it
\* keeps the in-area points strictly above the lowest latitude among them
AreaFilterAboveLowest(X_cat) ==
    LET inside == SelectSeq(X_cat, InArea)
        lats == {inside[i][1] : i \in DOMAIN inside}
        lowest == CHOOSE x \in lats : \A y \in lats : x <= y
    IN  IF inside = <<>> THEN inside
        ELSE SelectSeq(inside, LAMBDA q : q[1] > lowest)

\* X_cat[mask]
AreaFilter(X_cat) == SelectSeq(X_cat, InArea)

\* a category is clustered from this many in-area points on
MinPoints == 10

\* in-area point counts run from MinPoints - 1 to MinPoints + Extra
Extra == 0
\* a clustering result has up to MaxK clusters
MaxK == 2

Methods == {"kmeans", "optics", "hdbscan", "spectral", "gmm", "affinity"}

\* the categories the loaded data holds, in np.unique order
DataCategories == <<"Nature", "Tourist">>

Width == 2 * half_diagonal + 1

\* the i-th in-area point of a category: distinct grid points of the area, the
\* first nine of them touching each of its four sides
InsidePoint(i) ==
    LET j == ((i - 1) * (Width + 1)) % (Width * Width)
    IN  <<lat_min + (j % Width), long_min + (j \div Width)>>

\* n (at least 6) points inside the area of interest, and between them one point
\* just outside each of its four sides
MakePoints(n) ==
    LET inside == [i \in 1..n |-> InsidePoint(i)]
    IN  <<<<lat_min - 1, long_min>>>> \o SubSeq(inside, 1, 3)
        \o <<<<lat_max + 1, long_max>>>> \o SubSeq(inside, 4, 6)
        \o <<<<lat_min, long_min - 1>>>> \o SubSeq(inside, 7, n)
        \o <<<<lat_max, long_max + 1>>>>

\* the entries a category can have in clustering_techniques
Techniques ==
    { [method |-> m, params |-> "valid"] : m \in Methods }
    \cup { [method |-> "dbscan", params |-> "valid"],
           [method |-> "kmeans", params |-> "invalid"],
           [method |-> "kmeans"],
           [params |-> "valid"] }

Configs ==
    UNION { [D -> Techniques] : D \in SUBSET Range(DataCategories) }

-----------------------------------------------------------------------------
(* What the libraries can return *)

\* n labels: m noise points (label -1), the others spread over k clusters
Labelling(n, k, m) == [i \in 1..n |-> IF i <= m THEN -1 ELSE (i - m - 1) % k]

DensityMethods == {"optics", "hdbscan"}

\* the label arrays fit/fit_predict can return for n points
Labellings(method, n) ==
    { Labelling(n, k, 0) : k \in 1..MaxK }
    \cup (IF method \in DensityMethods
          THEN { Labelling(n, 1, m) : m \in {3, n - 2, n} }
          ELSE {})
    \cup (IF method = "affinity" THEN { [i \in 1..n |-> i - 1] } ELSE {})

\* fit/fit_predict: a label array, or an exception
FitOutcomes(method, n) == {<<>>} \cup Labellings(method, n)

UniqueLabels(labs) == Range(labs)

\* X_cat_subset[labels == label]
ClusterPoints(subset, labs, label) ==
    LET keep == SelectSeq([i \in DOMAIN subset |-> i], LAMBDA i : labs[i] = label)
    IN  [j \in DOMAIN keep |-> subset[keep[j]]]

\* scores that accept any number of distinct labels
ScoresNeverRaise(subset, labs) == FALSE

\* the three sklearn scores accept 2 .. n_samples - 1 distinct labels
ScoresRaise(subset, labs) ==
    \/ Len(labs) # Len(subset)
    \/ Cardinality(UniqueLabels(labs)) = Len(labs)

ClusterSize(labs, label) == Cardinality({i \in DOMAIN labs : labs[i] = label})

\* alphashape on the points of a cluster: a polygon ("ring"), a geometry without
\* an exterior ("none": a point, a line, several polygons) or an exception ("raise").
\* One or two points never give a polygon; of the larger clusters of one result at
\* most one (bad) fails, the way kind says.
HullOracles(labs) ==
    { [bad |-> b, kind |-> k] :
        b \in {{}} \cup { {l} : l \in {x \in UniqueLabels(labs) : ClusterSize(labs, x) > 2} },
        k \in {"none", "raise"} }

HullOutcome(labs, h, label) ==
    IF ClusterSize(labs, label) <= 2 THEN "none"
    ELSE IF label \in h.bad THEN h.kind
    ELSE "ring"

\* coordinates that do not come back to the first point
RingOpen(pts) == <<pts[1], pts[2], pts[Len(pts)]>>

\* concave_hull.exterior.coords of a polygon: a closed ring of cluster points
Ring(pts) == <<pts[1], pts[2], pts[Len(pts)], pts[1]>>

-----------------------------------------------------------------------------
(* One iteration of the category loop *)

\* config['clustering_techniques'].get(category)
TechniqueOf(cat) ==
    IF cat \in DOMAIN config
    THEN [none |-> FALSE, d |-> config[cat]]
    ELSE [none |-> TRUE, d |-> <<>>]

\* technique[key]: the exception it raises, or "ok"
Subscript(technique, key) ==
    IF technique.none THEN "TypeError"
    ELSE IF key \notin DOMAIN technique.d THEN "KeyError"
    ELSE "ok"

\* create_clustering_model(technique['method'], technique['params']) of the scripts
\* implementation: the exception it raises, or "ok"
CreateClusteringModel(technique) ==
    IF Subscript(technique, "method") # "ok" THEN Subscript(technique, "method")
    ELSE IF Subscript(technique, "params") # "ok" THEN Subscript(technique, "params")
    ELSE IF technique.d["method"] \notin Methods THEN "KeyError"
    ELSE IF technique.d["params"] # "valid" THEN "TypeError"
    ELSE "ok"

\* the if/elif chain without a branch for 'affinity'
DispatchMethodNoAffinity(technique) ==
    IF Subscript(technique, "method") # "ok" THEN Subscript(technique, "method")
    ELSE IF technique.d["method"] \notin Methods \ {"affinity"} THEN "no branch"
    ELSE IF Subscript(technique, "params") # "ok" THEN Subscript(technique, "params")
    ELSE IF technique.d["params"] # "valid" THEN "TypeError"
    ELSE "ok"

\* the if/elif chain of the src implementation: "ok" when a branch built a model,
\* "no branch" when the method matches none, or the exception raised
DispatchMethod(technique) ==
    IF Subscript(technique, "method") # "ok" THEN Subscript(technique, "method")
    ELSE IF technique.d["method"] \notin Methods THEN "no branch"
    ELSE IF Subscript(technique, "params") # "ok" THEN Subscript(technique, "params")
    ELSE IF technique.d["params"] # "valid" THEN "TypeError"
    ELSE "ok"

RECURSIVE SortedSeq(_)
SortedSeq(S) ==
    IF S = {} THEN <<>>
    ELSE LET m == CHOOSE x \in S : \A y \in S : x <= y
         IN  <<m>> \o SortedSeq(S \ {m})

\* The hull loop over np.unique(labels), label by label in ascending order: the
\* cluster_info built, or the exception that ended it.
RECURSIVE HullLoop(_, _, _, _)
HullLoop(subset, labs, h, todo) ==
    IF todo = <<>> THEN [error |-> "none", cluster_info |-> <<>>]
    ELSE LET label == Head(todo)
         IN  IF Len(labs) # Len(subset) THEN [error |-> "IndexError", cluster_info |-> <<>>]
             ELSE IF HullOutcome(labs, h, label) = "raise"
             THEN [error |-> "HullError", cluster_info |-> <<>>]
             ELSE LET rest == HullLoop(subset, labs, h, Tail(todo))
                      ring == Ring(ClusterPoints(subset, labs, label))
                  IN  IF rest.error # "none" \/ HullOutcome(labs, h, label) = "none"
                      THEN rest
                      ELSE [error |-> "none",
                            cluster_info |->
                                [l \in (DOMAIN rest.cluster_info) \cup {label} |->
                                    IF l = label THEN ring ELSE rest.cluster_info[l]]]

Continue(stages) ==
    [status |-> "continue", error |-> "none", labels |-> labels, stored |-> FALSE,
     cluster_info |-> <<>>, metrics |-> "unscored", stages |-> stages]

Abort(err, labs, stages) ==
    [status |-> "abort", error |-> err, labels |-> labs, stored |-> FALSE,
     cluster_info |-> <<>>, metrics |-> "unscored", stages |-> stages]

\* scoring and hull extraction on the labels in use (both implementations)
ScoreAndBound(subset, labs, h, stages) ==
    LET single == Cardinality(UniqueLabels(labs)) = 1
        hull == HullLoop(subset, labs, h, SortedSeq(UniqueLabels(labs)))
        m == IF single THEN "none" ELSE "computed"
    IN  IF ~single /\ ScoresRaise(subset, labs)
        THEN Abort("ValueError", labs, stages)
        ELSE IF hull.error # "none"
        THEN [Abort(hull.error, labs, Append(stages, "scored")) EXCEPT !.metrics = m]
        ELSE [status |-> "continue", error |-> "none", labels |-> labs, stored |-> TRUE,
              cluster_info |-> hull.cluster_info, metrics |-> m,
              stages |-> stages \o <<"scored", "bounded">>]

\* main() of scripts/clusterize.py, lines 330-363, up to the labels
ScriptsUpToLabels(cat, X_cat, fit) ==
    LET technique == TechniqueOf(cat)
        subset == AreaFilter(X_cat)
    IN  IF Subscript(technique, "method") # "ok"
        THEN Abort(Subscript(technique, "method"), labels, <<>>)
        ELSE IF Len(subset) < MinPoints
        THEN Continue(<<"filtered", "skipped">>)
        ELSE IF CreateClusteringModel(technique) # "ok"
        THEN Abort(CreateClusteringModel(technique), labels, <<"filtered">>)
        ELSE IF fit = <<>>
        THEN Abort("FitError", labels, <<"filtered">>)
        ELSE [Continue(<<"filtered", "clustered">>) EXCEPT !.labels = fit]

\* the module body of src/clusterize.py, lines 71-102, up to the labels
SrcUpToLabels(cat, X_cat, fit) ==
    LET technique == TechniqueOf(cat)
        subset == AreaFilter(X_cat)
    IN  IF Len(subset) < MinPoints
        THEN Continue(<<"filtered", "skipped">>)
        ELSE IF DispatchMethod(technique) = "no branch"
        THEN (IF labels = <<>>
              THEN Abort("NameError", labels, <<"filtered">>)
              ELSE Continue(<<"filtered">>))
        ELSE IF DispatchMethod(technique) # "ok"
        THEN Abort(DispatchMethod(technique), labels, <<"filtered">>)
        ELSE IF fit = <<>>
        THEN Abort("FitError", labels, <<"filtered">>)
        ELSE [Continue(<<"filtered", "clustered">>) EXCEPT !.labels = fit]

UpToLabels(i, cat, X_cat, fit) ==
    IF i = "scripts" THEN ScriptsUpToLabels(cat, X_cat, fit)
    ELSE SrcUpToLabels(cat, X_cat, fit)

Skipped(r) == r.status = "abort" \/ "skipped" \in Range(r.stages)

\* the whole iteration for one category
Iteration(i, cat, X_cat, fit, h) ==
    LET first == UpToLabels(i, cat, X_cat, fit)
    IN  IF Skipped(first) THEN first
        ELSE ScoreAndBound(AreaFilter(X_cat), first.labels, h, first.stages)

MethodOf(cat) ==
    IF cat \in DOMAIN config /\ "method" \in DOMAIN config[cat]
    THEN config[cat]["method"]
    ELSE "None"

With(f, k, v) == [x \in (DOMAIN f) \cup {k} |-> IF x = k THEN v ELSE f[x]]

ProcessCategory ==
    /\ pc = "loop"
    /\ idx <= Len(categories)
    /\ LET cat == categories[idx]
           X_cat == X_by_category[idx]
           subset == AreaFilter(X_cat)
       IN  \E fit \in FitOutcomes(MethodOf(cat), Len(subset)) :
             LET first == UpToLabels(impl, cat, X_cat, fit)
             IN  \E h \in HullOracles(IF Skipped(first) \/ Len(first.labels) # Len(subset)
                                       THEN <<>> ELSE first.labels) :
                   LET r == IF Skipped(first) THEN first
                            ELSE ScoreAndBound(subset, first.labels, h, first.stages)
                   IN  /\ labels' = r.labels
                       /\ X_cat_subset' = IF r.stages # <<>>
                                          THEN With(X_cat_subset, cat, subset)
                                          ELSE X_cat_subset
                       /\ stage' = With(stage, cat, r.stages)
                       /\ metrics' = IF r.metrics = "unscored" THEN metrics
                                     ELSE With(metrics, cat, r.metrics)
                       /\ error' = r.error
                       /\ IF r.status = "abort"
                          THEN /\ pc' = "aborted"
                               /\ UNCHANGED <<idx, clusters_info>>
                          ELSE /\ pc' = "loop"
                               /\ idx' = idx + 1
                               /\ clusters_info' =
                                      IF r.stored
                                      THEN With(clusters_info, cat, r.cluster_info)
                                      ELSE clusters_info
    /\ UNCHANGED <<impl, config, categories, X_by_category, data, cvars, gvars, xvars>>

\* prepare_cluster_document of index_clusters_to_elasticsearch.py: the document
\* built from one stored row (coordinates turned to [lon, lat])
PrepareClusterDocument(row, c) ==
    [group |-> row.group,
     cluster_number |-> row.cluster_number,
     shape |-> [type |-> "polygon",
                coordinates |-> [i \in DOMAIN row.coordinates |->
                                    <<row.coordinates[i][2], row.coordinates[i][1]>>]],
     city |-> c,
     metadata |-> [num_points |-> Len(row.coordinates)]]

\* the rows of one group, in the order of its dict
RowsOfGroup(group, clusters) ==
    LET nums == SortedSeq(DOMAIN clusters)
    IN  [j \in DOMAIN nums |->
            [group |-> group, cluster_number |-> nums[j], coordinates |-> clusters[nums[j]]]]

RECURSIVE FlattenGroups(_, _)
FlattenGroups(info, n) ==
    IF n = 0 THEN <<>>
    ELSE FlattenGroups(info, n - 1)
         \o (IF categories[n] \in DOMAIN info
             THEN RowsOfGroup(categories[n], info[categories[n]])
             ELSE <<>>)

\* save_clusters_to_parquet / the save at the end of the module body
SaveClusters ==
    /\ pc = "loop"
    /\ idx > Len(categories)
    /\ data' = FlattenGroups(clusters_info, Len(categories))
    /\ stage' = [c \in DOMAIN stage |->
                    IF c \in DOMAIN clusters_info THEN Append(stage[c], "emitted")
                    ELSE stage[c]]
    /\ pc' = "done"
    /\ UNCHANGED <<impl, config, categories, X_by_category, X_cat_subset, idx,
                   labels, clusters_info, metrics, error, cvars, gvars, xvars>>

CollectorIdle ==
    /\ elements = <<>>
    /\ eidx = 0
    /\ info_nearby = <<>>
    /\ cpc = "idle"
    /\ city = "None"
    /\ mappedLog = <<>>
    /\ gimpl = "scripts"
    /\ gpc = "idle"
    /\ gcategories = <<>>
    /\ gX_by_category = <<>>

Counts == (MinPoints - 1)..(MinPoints + Extra)

Init ==
    /\ impl \in Impls
    /\ config \in Configs
    /\ categories = DataCategories
    /\ X_by_category \in { [k \in DOMAIN DataCategories |-> MakePoints(n[k])] :
                             n \in [DOMAIN DataCategories -> Counts] }
    /\ X_cat_subset = <<>>
    /\ idx = 1
    /\ labels = <<>>
    /\ clusters_info = <<>>
    /\ pc = "loop"
    /\ data = <<>>
    /\ metrics = <<>>
    /\ stage = <<>>
    /\ error = "none"
    /\ CollectorIdle
    /\ ServicesIdle

Next == ProcessCategory \/ SaveClusters

Spec == Init /\ [][Next]_vars

-----------------------------------------------------------------------------
(* Claims about the category loop, under Spec *)

InAreaCount(k) == Len(AreaFilter(X_by_category[k]))

WellConfigured(cat) ==
    /\ cat \in DOMAIN config
    /\ DOMAIN config[cat] = {"method", "params"}
    /\ config[cat]["method"] \in Methods
    /\ config[cat]["params"] = "valid"

Malformed(cat) ==
    /\ cat \in DOMAIN config
    /\ \/ DOMAIN config[cat] # {"method", "params"}
       \/ config[cat]["method"] \notin Methods

\* the loop has dealt with the k-th category: it went past it or stopped on it
Handled(k) == idx > k \/ (pc = "aborted" /\ idx = k)

AbortedAt(k) == pc = "aborted" /\ idx = k

StagesOf(cat) == IF cat \in DOMAIN stage THEN Range(stage[cat]) ELSE {}

\* C1 as stated: the iteration of a category that has no entry in the clustering
\* configuration is a skip, whatever its number of in-area points: the loop goes on
\* to the next category, nothing is clustered, and nothing a later category reads or
\* emits (the records so far, the labels) is changed by it.
C1_UnconfiguredIsSkipped ==
    [][ (pc = "loop" /\ idx <= Len(categories) /\ categories[idx] \notin DOMAIN config)
        => /\ pc' = "loop"
           /\ idx' = idx + 1
           /\ clusters_info' = clusters_info
           /\ labels' = labels
           /\ "clustered" \notin Range(stage'[categories[idx]]) ]_vars

\* C2 as stated: when the processing of one category fails, every other category
\* with at least MinPoints in-area points and a valid configuration still has its
\* boundary records emitted at the end of the run.
C2_FailureDoesNotBlockOthers ==
    \A k \in DOMAIN categories :
        AbortedAt(k) =>
            \A j \in (DOMAIN categories) \ {k} :
                (WellConfigured(categories[j]) /\ InAreaCount(j) >= MinPoints)
                    => "emitted" \in StagesOf(categories[j])

\* C3 as stated: a category whose configuration entry is malformed ends as a skipped
\* category without boundary records, and the run goes on.
C3_MalformedIsSkipped ==
    \A k \in DOMAIN categories :
        (Malformed(categories[k]) /\ Handled(k)) =>
            /\ ~AbortedAt(k)
            /\ categories[k] \notin DOMAIN clusters_info
            /\ "clustered" \notin StagesOf(categories[k])

\* clustering was started for the k-th category (it returned labels or raised)
ClusteringRun(k) ==
    \/ "clustered" \in StagesOf(categories[k])
    \/ (AbortedAt(k) /\ error = "FitError")

\* C4 as stated: for every category, clustering is run iff its in-area subset has at
\* least MinPoints points; below that the category is skipped entirely and nothing
\* is raised.
C4_ClusteredIffEnoughPoints ==
    \A k \in DOMAIN categories :
        Handled(k) =>
            IF InAreaCount(k) < MinPoints
            THEN /\ ~AbortedAt(k)
                 /\ stage[categories[k]] = <<"filtered", "skipped">>
                 /\ categories[k] \notin (DOMAIN clusters_info) \cup (DOMAIN metrics)
            ELSE ClusteringRun(k)

\* The threshold alone, for the categories whose configuration entry is well formed:
\* clustering is run iff the in-area subset has at least MinPoints points.
ThresholdForWellConfigured ==
    \A k \in DOMAIN categories :
        (Handled(k) /\ WellConfigured(categories[k])) =>
            IF InAreaCount(k) < MinPoints
            THEN /\ ~AbortedAt(k)
                 /\ stage[categories[k]] = <<"filtered", "skipped">>
                 /\ categories[k] \notin (DOMAIN clusters_info) \cup (DOMAIN metrics)
            ELSE ClusteringRun(k)

\* C5 as stated: no hull is kept for the noise label -1 and no boundary record has
\* the noise label as its cluster_number.
C5_NoiseHasNoBoundary ==
    /\ \A cat \in DOMAIN clusters_info : -1 \notin DOMAIN clusters_info[cat]
    /\ \A j \in DOMAIN data : data[j].cluster_number # -1

-----------------------------------------------------------------------------
(* Claims about the classifier and the grouping, under SpecCollect *)

Processed == DOMAIN mappedLog

HasTag(i, k, v) == k \in DOMAIN elements[i].tags /\ elements[i].tags[k] = v

\* the row of processed element i, when it has one
RowOf(i) == info_nearby[mappedLog[i].row]

Position(cats, c) == CHOOSE k \in DOMAIN cats : cats[k] = c

\* C6 as stated: after grouping, the point of every POI lies in the point set of each
\* category of its category set.
C6_EveryCategoryGetsThePoint ==
    gpc = "grouped" =>
        \A i \in DOMAIN info_nearby : \A c \in Range(info_nearby[i].Custom) :
            /\ c \in Range(gcategories)
            /\ PointOf(info_nearby[i]) \in Range(gX_by_category[Position(gcategories, c)])

\* C6 amended: after grouping, every POI contributes its point to exactly one point
\* set, the one of the category listed first in its Custom list; the categories are
\* exactly the first-listed ones.
C6_FirstCategoryGetsThePoint ==
    gpc = "grouped" =>
        /\ Range(gcategories) = {info_nearby[i].Custom[1] : i \in DOMAIN info_nearby}
        /\ \A i \in DOMAIN info_nearby : \A k \in DOMAIN gcategories :
               PointOf(info_nearby[i]) \in Range(gX_by_category[k])
                   <=> gcategories[k] = info_nearby[i].Custom[1]

C6_Witness ==
    /\ gpc = "grouped"
    /\ Len(info_nearby) = 2
    /\ info_nearby[1].Custom = <<"Tourist", "Nature">>
    /\ info_nearby[2].Custom = <<"Nature", "Tourist">>
    /\ gcategories = <<"Nature", "Tourist">>

ParsesAsNumber(tags, k) == k \notin DOMAIN tags \/ PyInt(tags[k]).ok

Levels(tags) == IntTag(tags, "levels").val

Height(tags) == FloatTag(tags, "height").val \div 10

\* C7 as stated: a building=residential POI is classified Upper when levels >= 10 or
\* height >= 30, Middle when levels is 5..9 or height is 15..29, Lower otherwise.
C7_ResidentialTiers ==
    \A i \in Processed :
        (HasTag(i, "building", "residential")
            /\ ParsesAsNumber(elements[i].tags, "levels")
            /\ ParsesAsNumber(elements[i].tags, "height")) =>
        LET t == elements[i].tags
            got == mappedLog[i].log["building"]
        IN  IF Levels(t) >= 10 \/ Height(t) >= 30
            THEN got \in {Str("Upper"), Str("Upper r.e.")}
            ELSE IF Levels(t) \in 5..9 \/ Height(t) \in 15..29
            THEN got \in {Str("Middle"), Str("Middle r.e.")}
            ELSE got \in {Str("Lower"), Str("Lower r.e.")}

\* C8: every POI tagged building=office with building:material=glass is classified
\* "Business center", whatever its height tag holds.
C8_GlassOfficeIsBusinessCenter ==
    \A i \in Processed :
        (HasTag(i, "building", "office") /\ HasTag(i, "building:material", "glass")) =>
            /\ ~mappedLog[i].raised
            /\ mappedLog[i].log["building"] = Str("Business center")
            /\ mappedLog[i].row # 0
            /\ "Business center" \in Range(RowOf(i).Custom)

C8_Witness ==
    \E i \in Processed :
        /\ HasTag(i, "building", "office")
        /\ HasTag(i, "building:material", "glass")
        /\ HasTag(i, "height", "tall")
        /\ mappedLog[i].row # 0
        /\ RowOf(i).Custom = <<"Business center">>

\* the tags with a missing or non-numeric height/levels replaced by "0"
ZeroMalformed(tags) ==
    [k \in (DOMAIN tags) \cup {"height", "levels"} |->
        IF k = "height" THEN (IF k \in DOMAIN tags /\ PyFloat(tags[k]).ok THEN tags[k] ELSE "0")
        ELSE IF k = "levels" THEN (IF k \in DOMAIN tags /\ PyInt(tags[k]).ok THEN tags[k] ELSE "0")
        ELSE tags[k]]

\* C9: classification never raises on a missing or non-numeric height/levels tag: the
\* element loop never leaves through the exception handler, and every element gets
\* the categories it would get with the malformed or missing value read as 0.
C9_NumericNeverRaises ==
    /\ cpc # "except"
    /\ \A i \in Processed :
           /\ ~mappedLog[i].raised
           /\ elements[i].type = "node" =>
                /\ mappedLog[i].log = Classify(ZeroMalformed(elements[i].tags)).log
                /\ (mappedLog[i].row # 0 =>
                      Range(RowOf(i).Custom) =
                          Range(Classify(ZeroMalformed(elements[i].tags)).mapped_categories))

C9_Witness ==
    \E i \in Processed :
        /\ HasTag(i, "building", "hotel")
        /\ HasTag(i, "levels", "x")
        /\ HasTag(i, "height", "tall")
        /\ ~mappedLog[i].raised
        /\ mappedLog[i].row # 0
        /\ cpc = "done"

HasWildcard(osm_type) == "*" \in DOMAIN osm_mapping[osm_type]

ExactValues(osm_type) == (DOMAIN osm_mapping[osm_type]) \ {"*"}

\* C10: under a key whose rules hold a wildcard, a value with an exact entry resolves
\* to that entry and every other value to the wildcard entry.
C10_ExactBeatsWildcard ==
    \A i \in Processed : \A k \in DOMAIN mappedLog[i].log :
        HasWildcard(k) =>
            LET v == elements[i].tags[k]
                got == mappedLog[i].log[k]
            IN  /\ got = IF v \in ExactValues(k)
                         THEN osm_mapping[k][v]
                         ELSE osm_mapping[k]["*"]
                /\ mappedLog[i].row # 0
                /\ Range(got.v) \subseteq Range(RowOf(i).Custom)

C10_Witness ==
    \E i \in Processed :
        /\ HasTag(i, "tourism", "hotel")
        /\ HasTag(i, "man_made", "tower")
        /\ mappedLog[i].log["tourism"] = Str("Upper r.e.")
        /\ mappedLog[i].log["man_made"] = Str("Lower r.e.")
        /\ Range(RowOf(i).Custom) = {"Upper r.e.", "Lower r.e."}

RecognizedKeys(tags) == (DOMAIN tags) \cap Range(OsmTypes)

\* the categories a rule result stands for
CategoriesOf(mapped) == IF mapped.tag \in {"str", "list"} THEN Range(mapped.v) ELSE {}

\* the leisure values whose rule is a list
FanOutValues == {v \in DOMAIN osm_mapping["leisure"] : osm_mapping["leisure"][v].tag = "list"}

\* C11: every POI tagged leisure=park is classified into both "Nature" and "Tourist",
\* and every POI with another list-valued leisure value into all categories of that
\* list, whatever other tags it carries.
C11_FanOut ==
    \A i \in Processed :
        /\ HasTag(i, "leisure", "park") =>
              /\ mappedLog[i].row # 0
              /\ {"Nature", "Tourist"} \subseteq Range(RowOf(i).Custom)
        /\ \A v \in FanOutValues :
              HasTag(i, "leisure", v) =>
                  /\ mappedLog[i].row # 0
                  /\ Range(osm_mapping["leisure"][v].v) \subseteq Range(RowOf(i).Custom)

C11_Witness ==
    \E i \in Processed :
        /\ HasTag(i, "leisure", "park")
        /\ HasTag(i, "amenity", "cafe")
        /\ mappedLog[i].row # 0
        /\ Range(RowOf(i).Custom) = {"Nature", "Tourist", "Cafe street"}

\* the union, over the recognized keys of the tags, of what each key's rule yields
UnionOfRules(tags) ==
    UNION { CategoriesOf(GetMappedCategory(k, tags[k], tags)) : k \in RecognizedKeys(tags) }

\* C12: the category set of a POI is the union over its recognized keys of the
\* categories each key's rule yields, and no category is listed twice; a POI whose
\* union is empty has no row.
C12_UnionWithoutDuplicates ==
    \A i \in Processed :
        elements[i].type = "node" =>
            IF mappedLog[i].row # 0
            THEN /\ Range(RowOf(i).Custom) = UnionOfRules(elements[i].tags)
                 /\ Len(RowOf(i).Custom) = Cardinality(Range(RowOf(i).Custom))
            ELSE UnionOfRules(elements[i].tags) = {}

C12_Witness ==
    \E i \in Processed :
        /\ HasTag(i, "leisure", "park")
        /\ HasTag(i, "tourism", "zoo")
        /\ mappedLog[i].log["tourism"] = Str("Tourist")
        /\ mappedLog[i].row # 0
        /\ Len(RowOf(i).Custom) = 2

\* C13: a POI whose tags hold none of the fifteen recognized keys gets the empty
\* category set: no rule is consulted for it and it has no row.
C13_UnrecognizedKeysGiveNothing ==
    \A i \in Processed :
        (elements[i].type = "node" /\ RecognizedKeys(elements[i].tags) = {}) =>
            /\ mappedLog[i].log = <<>>
            /\ ~mappedLog[i].raised
            /\ mappedLog[i].row = 0
            /\ Classify(elements[i].tags).mapped_categories = <<>>

C13_Witness ==
    \E i \in Processed :
        /\ DOMAIN elements[i].tags = {"public_transport", "healthcare"}
        /\ mappedLog[i].row = 0
        /\ cpc = "done"

\* no rule matches: every recognized key of the tags has no wildcard entry and no
\* exact entry for the value
NoRuleMatches(tags) ==
    \A k \in RecognizedKeys(tags) : ~HasWildcard(k) /\ tags[k] \notin ExactValues(k)

\* C14: a POI for which no rule matches has no row in the classified output and its
\* point lies in no category's point set after grouping.
C14_NoMatchIsExcluded ==
    \A i \in Processed :
        (elements[i].type = "node" /\ NoRuleMatches(elements[i].tags)) =>
            /\ mappedLog[i].row = 0
            /\ \A j \in DOMAIN info_nearby :
                   PointOf(info_nearby[j]) # <<elements[i].lat, elements[i].lon>>
            /\ gpc = "grouped" =>
                   \A k \in DOMAIN gX_by_category :
                       <<elements[i].lat, elements[i].lon>> \notin Range(gX_by_category[k])

C14_Witness ==
    /\ gpc = "grouped"
    /\ Len(elements) = 2
    /\ HasTag(1, "amenity", "school")
    /\ HasTag(2, "leisure", "park")
    /\ mappedLog[1].row = 0
    /\ Len(info_nearby) = 1

-----------------------------------------------------------------------------
(* Claims about the area filter, the labels, the scorer and the hulls, under Spec *)

\* the bounding box as the claim words it, from the configured center
InBox(p) ==
    /\ general_parameters.latitude - general_parameters.half_diagonal_coor <= p[1]
    /\ p[1] <= general_parameters.latitude + general_parameters.half_diagonal_coor
    /\ general_parameters.longitude - general_parameters.half_diagonal_coor <= p[2]
    /\ p[2] <= general_parameters.longitude + general_parameters.half_diagonal_coor

PointsOfCategory(cat) == X_by_category[Position(categories, cat)]

\* C15: the filtered subset of a category consists of exactly the points of the
\* category that lie in the box center +- half_diagonal, bounds included on all four
\* sides, in the order they have in the input.
C15_FilterKeepsExactlyTheBox ==
    \A cat \in DOMAIN X_cat_subset :
        LET X == PointsOfCategory(cat)
            kept == SortedSeq({i \in DOMAIN X : InBox(X[i])})
            subset == X_cat_subset[cat]
        IN  /\ Len(subset) = Len(kept)
            /\ \A j \in DOMAIN kept : subset[j] = X[kept[j]]

C15_Witness ==
    /\ "Nature" \in DOMAIN X_cat_subset
    /\ Len(X_cat_subset["Nature"]) = Len(PointsOfCategory("Nature")) - 4
    /\ {<<lat_min, long_min>>, <<lat_max, long_max>>, <<lat_max, long_min>>}
           \subseteq Range(X_cat_subset["Nature"])
    /\ \E i \in DOMAIN X_cat_subset["Nature"] : X_cat_subset["Nature"][i][2] = long_max

\* C16: filtering an already filtered subset again with the same box returns it
\* unchanged.
C16_FilterIsIdempotent ==
    \A cat \in DOMAIN X_cat_subset :
        AreaFilter(X_cat_subset[cat]) = X_cat_subset[cat]

C16_Witness ==
    /\ "Tourist" \in DOMAIN X_cat_subset
    /\ Len(X_cat_subset["Tourist"]) >= MinPoints
    /\ Len(X_cat_subset["Tourist"]) < Len(PointsOfCategory("Tourist"))
    /\ AreaFilter(AreaFilter(PointsOfCategory("Tourist"))) = X_cat_subset["Tourist"]

\* the category the loop dealt with last
LastHandled == IF pc = "aborted" THEN idx ELSE idx - 1

\* C17: for a category configured with one of the six methods, scoring and hull
\* extraction only ever work on labels that the clustering of this category has just
\* returned, and these hold one label per point of the filtered subset, position by
\* position.
C17_OneLabelPerPoint ==
    \A k \in DOMAIN categories :
        (Handled(k) /\ MethodOf(categories[k]) \in Methods) =>
            /\ (StagesOf(categories[k]) \cap {"scored", "bounded"} # {})
                   => "clustered" \in StagesOf(categories[k])
            /\ (k = LastHandled /\ "clustered" \in StagesOf(categories[k]))
                   => DOMAIN labels = DOMAIN X_cat_subset[categories[k]]

C17_Witness ==
    /\ impl = "src"
    /\ pc = "loop"
    /\ idx = 3
    /\ MethodOf(categories[1]) = "optics"
    /\ MethodOf(categories[2]) = "gmm"
    /\ "bounded" \in StagesOf(categories[1])
    /\ "bounded" \in StagesOf(categories[2])
    /\ Cardinality(Range(labels)) = 2
    /\ Len(labels) = Len(X_cat_subset[categories[2]])

\* the last category handled got labels from its own clustering
LastClustered ==
    /\ LastHandled \in DOMAIN categories
    /\ "clustered" \in StagesOf(categories[LastHandled])

DistinctLabels == Cardinality(Range(labels))

C19_ScoringNeverGates ==
    \A k \in DOMAIN categories :
        ("clustered" \in StagesOf(categories[k]) /\ AbortedAt(k)) => error # "ValueError"

\* the last category handled went through hull extraction
LastBounded ==
    /\ LastHandled \in DOMAIN categories
    /\ "bounded" \in StagesOf(categories[LastHandled])

\* C20: a cluster of one or two points gets no hull, and every hull kept is a closed
\* ring (first coordinate = last coordinate) around a cluster of three or more
\* points, made of points of that cluster.
C20_HullIsClosedRingOrNone ==
    /\ \A cat \in DOMAIN clusters_info : \A l \in DOMAIN clusters_info[cat] :
           LET ring == clusters_info[cat][l]
           IN  Len(ring) >= 4 /\ ring[1] = ring[Len(ring)]
    /\ LastBounded =>
           LET cat == categories[LastHandled]
               subset == X_cat_subset[cat]
           IN  /\ \A l \in Range(labels) :
                      ClusterSize(labels, l) <= 2 => l \notin DOMAIN clusters_info[cat]
               /\ \A l \in DOMAIN clusters_info[cat] :
                      /\ ClusterSize(labels, l) >= 3
                      /\ Range(clusters_info[cat][l])
                             \subseteq Range(ClusterPoints(subset, labels, l))

C20_Witness ==
    /\ LastBounded
    /\ \E l \in Range(labels) :
           /\ ClusterSize(labels, l) = 2
           /\ l \notin DOMAIN clusters_info[categories[LastHandled]]
    /\ \E l \in DOMAIN clusters_info[categories[LastHandled]] :
           /\ ClusterSize(labels, l) >= 3
           /\ clusters_info[categories[LastHandled]][l][1]
                  = clusters_info[categories[LastHandled]][l][4]

-----------------------------------------------------------------------------
(* Claims about failures, records and stages of the category loop, under Spec *)

\* C21 as stated: a cluster whose boundary extraction fails is skipped alone: the run
\* never ends on an extraction failure, and every category that was scored goes on
\* to have its other boundaries stored.
C21_DegenerateClusterIsSkipped ==
    /\ error # "HullError"
    /\ \A k \in DOMAIN categories :
           (Handled(k) /\ "clustered" \in StagesOf(categories[k])
                       /\ "scored" \in StagesOf(categories[k]))
               => categories[k] \in DOMAIN clusters_info

\* An extraction that ends without a polygon (a geometry without exterior) is a
\* per-cluster skip: the category is bounded all the same and keeps a ring for every
\* other label of three or more points when no extraction raised.
NoPolygonIsSkipped ==
    LastBounded =>
        /\ ~AbortedAt(LastHandled)
        /\ Cardinality({l \in Range(labels) : ClusterSize(labels, l) > 2}
                           \ DOMAIN clusters_info[categories[LastHandled]]) <= 1

\* the fields of a boundary record
RecordFields == {"group", "cluster_number", "coordinates", "point_count"}

\* C22 as stated: every record handed on carries group, cluster_number, coordinates
\* and point_count, and the size reported for a cluster is its number of points.
C22_RecordsCarryPointCount ==
    /\ \A j \in DOMAIN data : RecordFields \subseteq DOMAIN data[j]
    /\ (pc = "done" /\ LastBounded) =>
           \A j \in DOMAIN data :
               data[j].group = categories[LastHandled] =>
                   PrepareClusterDocument(data[j], "Kazan").metadata.num_points
                       = ClusterSize(labels, data[j].cluster_number)

\* the two orders of stages a category can go through
StageOrders ==
    { <<"filtered", "skipped">>,
      <<"filtered", "clustered", "scored", "bounded", "emitted">> }

IsPrefix(s, t) == Len(s) <= Len(t) /\ SubSeq(t, 1, Len(s)) = s

\* C23 as stated: the stages of every category follow the stated order: filtered,
\* then skipped or clustered, then scored and bounded, then emitted.
C23_StagesInOrder ==
    \A cat \in DOMAIN stage : \E order \in StageOrders : IsPrefix(stage[cat], order)

\* The stated order holds for every category whose method is one of the six.
StagesInOrderForTheSixMethods ==
    \A cat \in DOMAIN stage :
        MethodOf(cat) \in Methods => \E order \in StageOrders : IsPrefix(stage[cat], order)

\* C24 as stated: whatever is recorded for a category (metrics, hulls) was computed
\* from labels its own clustering produced, never from labels left over from a
\* category processed before.
C24_NoLeftOverLabels ==
    \A k \in DOMAIN categories :
        (Handled(k) /\ "clustered" \notin StagesOf(categories[k])) =>
            /\ categories[k] \notin DOMAIN metrics
            /\ categories[k] \notin DOMAIN clusters_info

-----------------------------------------------------------------------------
(* Further claims about the classifier, under SpecCollect *)

\* the tags cut down to the recognized keys
Restrict(tags) == [k \in RecognizedKeys(tags) |-> tags[k]]

-----------------------------------------------------------------------------
(* The two implementations of the category loop compared, under Spec *)

\* what an iteration decides for its category
Decision(r) ==
    IF r.status = "abort" THEN "abort"
    ELSE IF r.stored THEN "emit"
    ELSE "skip"

\* from the current state, the two implementations decide alike on the category at
\* hand and store hulls for the same labels, whatever the libraries return
AgreeOnCurrent ==
    LET cat == categories[idx]
        X_cat == X_by_category[idx]
        subset == AreaFilter(X_cat)
    IN  \A fit \in FitOutcomes(MethodOf(cat), Len(subset)) :
            \A h \in HullOracles(fit) :
                LET a == Iteration("scripts", cat, X_cat, fit, h)
                    b == Iteration("src", cat, X_cat, fit, h)
                IN  /\ Decision(a) = Decision(b)
                    /\ DOMAIN a.cluster_info = DOMAIN b.cluster_info

\* C27 as stated: for the same points and the same configuration the two
\* implementations take the same decision for every category (skip, cluster and emit,
\* abort) and emit records for the same (category, label) pairs.
C27_ImplementationsAgree ==
    (pc = "loop" /\ idx <= Len(categories)) => AgreeOnCurrent

\* The two implementations agree on every category whose configuration entry is
\* well formed.
AgreeWhenWellConfigured ==
    (pc = "loop" /\ idx <= Len(categories) /\ WellConfigured(categories[idx]))
        => AgreeOnCurrent

-----------------------------------------------------------------------------
(* index_to_elasticsearch.py: one call of main(df) per city of config['cities'] *)

MaxCities == 3
MaxRows == 3
\* rows per bulk request (500 in the script, scaled down)
batch_size == 2

\* config['cities'] with the frame read for each city, as its number of rows
Frames == UNION { [1..n -> 0..MaxRows] : n \in 1..MaxCities }

\* what an earlier run can have left in Elasticsearch
LeftBehind == { [exists |-> FALSE, docs |-> {}], [exists |-> TRUE, docs |-> {<<0, 1>>}] }

\* the document of row r of the frame of the k-th city
Doc(k, r) == <<k, r>>

\* an index that is kept, with its documents, when it exists already
KeptWhenExisting(ix) == IF ix.exists THEN ix ELSE [exists |-> TRUE, docs |-> {}]

\* create_elasticsearch_index: delete the index when it exists, then create it
Recreated(ix) == [exists |-> TRUE, docs |-> {}]

\* main, lines 163-182: the client is built and the connection checked
Connect ==
    /\ ipc = "connect"
    /\ \E ok \in BOOLEAN : ipc' = IF ok THEN "create" ELSE "raised"
    /\ UNCHANGED <<cities, cityIdx, urban_areas, batchStart, outsideIndex>>

\* create_elasticsearch_index: any of its three requests can raise, and the
\* exception is raised again
CreateElasticsearchIndex ==
    /\ ipc = "create"
    /\ \E fail \in {"none", "exists", "create"} \cup
                   (IF urban_areas.exists THEN {"delete"} ELSE {}) :
          CASE fail = "none" ->
                   /\ urban_areas' = Recreated(urban_areas)
                   /\ ipc' = "bulk"
            [] fail \in {"exists", "delete"} ->
                   /\ UNCHANGED urban_areas
                   /\ ipc' = "raised"
            [] fail = "create" ->
                   /\ urban_areas' = [exists |-> FALSE, docs |-> {}]
                   /\ ipc' = "raised"
    /\ batchStart' = 0
    /\ UNCHANGED <<cities, cityIdx, outsideIndex>>

Min(a, b) == IF a <= b THEN a ELSE b

\* index_data_to_elasticsearch, one batch: the rows whose document could be prepared
\* and indexed are added; a failed document or a failed bulk request is only logged
BulkBatch ==
    /\ ipc = "bulk"
    /\ batchStart < cities[cityIdx]
    /\ LET batch == (batchStart + 1)..Min(batchStart + batch_size, cities[cityIdx])
       IN  \E indexed \in SUBSET batch :
               urban_areas' = [urban_areas EXCEPT
                                  !.docs = @ \cup {Doc(cityIdx, r) : r \in indexed}]
    /\ batchStart' = batchStart + batch_size
    /\ UNCHANGED <<cities, cityIdx, ipc, outsideIndex>>

\* the refresh and the count after the last batch, then the next city of the list
VerifyCount ==
    /\ ipc = "bulk"
    /\ batchStart >= cities[cityIdx]
    /\ \E ok \in BOOLEAN :
          IF ~ok
          THEN ipc' = "raised" /\ UNCHANGED cityIdx
          ELSE IF cityIdx = Len(cities)
          THEN ipc' = "done" /\ UNCHANGED cityIdx
          ELSE ipc' = "connect" /\ cityIdx' = cityIdx + 1
    /\ UNCHANGED <<cities, urban_areas, batchStart, outsideIndex>>

InitIndex ==
    /\ cities \in Frames
    /\ cityIdx = 1
    /\ ipc = "connect"
    /\ urban_areas \in LeftBehind
    /\ batchStart = 0
    /\ CollectorIdle
    /\ PipelineIdle
    /\ ClientIdle
    /\ CacheIdle

NextIndex == Connect \/ CreateElasticsearchIndex \/ BulkBatch \/ VerifyCount

SpecIndex == InitIndex /\ [][NextIndex]_vars

\* C26: every call recreates the index before indexing: while a city is indexed the
\* index holds documents of that city only, and after the whole run only documents
\* of the last city of the list.
C26_OnlyLastCityRemains ==
    /\ ipc = "bulk" => \A d \in urban_areas.docs : d[1] = cityIdx
    /\ ipc = "done" =>
           /\ urban_areas.exists
           /\ \A d \in urban_areas.docs : d[1] = Len(cities)

C26_Witness ==
    /\ ipc = "done"
    /\ Len(cities) = 2
    /\ cities[1] > 0
    /\ cities[2] > batch_size
    /\ urban_areas.docs = {Doc(2, r) : r \in 1..cities[2]}

-----------------------------------------------------------------------------
(* api.py: create_elasticsearch_client and the initialisation of the module *)

MaxRetries == 5
Delays == {0, 5}

ConnectionErrors == {"NewConnectionError", "MaxRetryError"}

\* what one attempt (Elasticsearch(...), es.info()) can end in
AttemptOutcomes == {"ok", "Exception"} \cup ConnectionErrors

\* a retry after every failed attempt, the last one included
RetryAlways(a, n) == a < n

\* line 57: another attempt follows this one
Retry(a, n) == a < n - 1

\* one pass of the loop body, lines 38-65
TryConnect ==
    /\ kpc = "try"
    /\ attempt < max_retries
    /\ attempts_made' = attempts_made + 1
    /\ \E outcome \in AttemptOutcomes :
          IF outcome = "ok"
          THEN /\ es' = "client"
               /\ kpc' = "returned"
               /\ UNCHANGED es_error
          ELSE /\ es_error' = outcome
               /\ UNCHANGED es
               /\ kpc' = IF outcome \in ConnectionErrors /\ Retry(attempt, max_retries)
                         THEN "sleep"
                         ELSE "raised"
    /\ UNCHANGED <<max_retries, retry_delay, attempt, clock, outsideClient>>

\* time.sleep(retry_delay), then the next value of range(max_retries)
Sleep ==
    /\ kpc = "sleep"
    /\ clock' = clock + retry_delay
    /\ attempt' = attempt + 1
    /\ kpc' = "try"
    /\ UNCHANGED <<max_retries, retry_delay, es, es_error, attempts_made, outsideClient>>

\* range(max_retries) is used up: the function ends without a return statement
LoopExhausted ==
    /\ kpc = "try"
    /\ attempt >= max_retries
    /\ kpc' = "returned"
    /\ UNCHANGED <<max_retries, retry_delay, attempt, es, es_error, clock,
                   attempts_made, outsideClient>>

\* lines 67-72: the module keeps the client, or turns the exception into an
\* HTTPException
InitialiseClient ==
    /\ kpc \in {"returned", "raised"}
    /\ kpc' = IF kpc = "returned" THEN "serving" ELSE "failed"
    /\ UNCHANGED <<max_retries, retry_delay, attempt, es, es_error, clock,
                   attempts_made, outsideClient>>

InitClient ==
    /\ max_retries \in 0..MaxRetries
    /\ retry_delay \in Delays
    /\ attempt = 0
    /\ kpc = "try"
    /\ es = "None"
    /\ es_error = "none"
    /\ clock = 0
    /\ attempts_made = 0
    /\ CollectorIdle
    /\ PipelineIdle
    /\ IndexIdle
    /\ CacheIdle

NextClient == TryConnect \/ Sleep \/ LoopExhausted \/ InitialiseClient

SpecClient == InitClient /\ [][NextClient]_vars

\* the call has ended
ClientEnded == kpc \in {"returned", "raised", "serving", "failed"}

\* C28: with max_retries = n >= 1 at most n attempts are made; the call returns at
\* the first success with a connected client; it has slept retry_delay once between
\* two attempts and not after the last; it raises a connection error only after the
\* n-th failed attempt and any other exception at once; it never returns without a
\* client.
C28_RetryProtocol ==
    max_retries >= 1 =>
        /\ attempts_made <= max_retries
        /\ kpc = "try" => attempts_made = attempt /\ clock = retry_delay * attempt
        /\ ClientEnded =>
               /\ attempts_made = attempt + 1
               /\ clock = retry_delay * (attempts_made - 1)
        /\ kpc \in {"returned", "serving"} => es = "client"
        /\ kpc \in {"raised", "failed"} =>
               /\ es = "None"
               /\ es_error \in ConnectionErrors => attempts_made = max_retries
               /\ es_error \in ConnectionErrors \cup {"Exception"}

C28_Witness ==
    /\ kpc = "raised"
    /\ max_retries = 3
    /\ retry_delay = 5
    /\ attempts_made = 3
    /\ clock = 10
    /\ es_error = "MaxRetryError"

-----------------------------------------------------------------------------
(* DataCollector.info_nearby_op: the cache of city tables and the request     *)
(* to the Overpass API around the loop over the elements                      *)

\* the calls after the first one
LaterCalls == {2}

\* how many elements a response of the API carries here
ResponseLengths == {0, 1, 2}

\* a table left in ./data/Kazan.csv by an earlier run
CachedTable ==
    << [Name |-> "Unnamed", Latitude |-> 50, Longitude |-> 30,
        Categories |-> <<"Nature">>, Custom |-> <<>>] >>

\* the files ./data can hold when the first call begins: none, a table, or the
\* file to_csv writes for an empty list
CacheFiles == { <<>>, "Kazan" :> CachedTable, "Kazan" :> <<>> }

CityArgs == {"None", "Kazan"}

\* the elements of these responses; the last one has no 'type' key
CacheElements(i) ==
    { Node(MkTags(<< <<"leisure", "park">> >>), i),
      Node(MkTags(<< <<"amenity", "school">> >>), i),
      Node(MkTags(<< <<"place", "city">>, <<"name", "Kazan">> >>), i),
      Node(MkTags(<< <<"amenity", "cafe">>, <<"addr:city", "Kazan">> >>), i),
      [tags |-> <<>>, lat |-> 50 + i, lon |-> 30 + i] }

RECURSIVE CacheResponsesOfLen(_)
CacheResponsesOfLen(n) ==
    IF n = 0 THEN {<<>>}
    ELSE { Append(r, e) : r \in CacheResponsesOfLen(n - 1), e \in CacheElements(n) }

CacheResponses == UNION { CacheResponsesOfLen(n) : n \in ResponseLengths }

\* requests.get and response.json(): status 200 with a body, another status,
\* or an exception (no connection, a body that is not JSON)
RequestOutcomes == {"200", "non200", "raise"}

\* line 284: the outcomes of pd.read_csv on ./data/<c>.csv. A missing file
\* raises; the file written for an empty list has no columns, and whether
\* read_csv raises on it or gives an empty table is left open
ReadOutcomes(files, c) ==
    IF c \notin DOMAIN files THEN {"raise"}
    ELSE IF files[c] = <<>> THEN {"raise", "table"}
    ELSE {"table"}

\* the cache write skipped after an exception
WrittenCacheUnlessInterrupted(c, files, rows) ==
    IF c # "None" /\ cpc # "except" THEN With(files, c, rows) ELSE files

\* lines 340-344: the list collected so far goes to the file of the city
WrittenCache(c, files, rows) ==
    IF c # "None" THEN With(files, c, rows) ELSE files

\* lines 282-289: a readable cache file is returned at once
ReadCache ==
    /\ hpc = "start"
    /\ IF city # "None"
       THEN \E o \in ReadOutcomes(cache, city) :
                IF o = "table"
                THEN /\ returned' = cache[city]
                     /\ hpc' = "returned"
                     /\ UNCHANGED info_nearby
                ELSE /\ info_nearby' = <<>>
                     /\ hpc' = "request"
                     /\ UNCHANGED returned
       ELSE /\ info_nearby' = <<>>
            /\ hpc' = "request"
            /\ UNCHANGED returned
    /\ UNCHANGED <<elements, eidx, cpc, city, mappedLog>>
    /\ UNCHANGED <<cityArg, cache, requests, callNo, cacheAtStart, requestsAtStart>>
    /\ UNCHANGED outsideCache

\* lines 290-294 and 335-338: the request, up to the loop over the elements
RequestOverpass ==
    /\ hpc = "request"
    /\ requests' = requests + 1
    /\ hpc' = "loop"
    /\ eidx' = 1
    /\ mappedLog' = <<>>
    /\ \E o \in RequestOutcomes :
           IF o = "200"
           THEN \E resp \in CacheResponses :
                    /\ elements' = resp
                    /\ cpc' = IF resp = <<>> THEN "done" ELSE "loop"
           ELSE /\ elements' = <<>>
                /\ cpc' = IF o = "raise" THEN "except" ELSE "done"
    /\ UNCHANGED <<info_nearby, city>>
    /\ UNCHANGED <<cityArg, cache, returned, callNo, cacheAtStart, requestsAtStart>>
    /\ UNCHANGED outsideCache

\* lines 340-345: the cache write and the return
WriteCacheAndReturn ==
    /\ hpc = "loop"
    /\ cpc \in {"done", "except"}
    /\ cache' = WrittenCache(city, cache, info_nearby)
    /\ returned' = info_nearby
    /\ hpc' = "returned"
    /\ UNCHANGED cvars
    /\ UNCHANGED <<cityArg, requests, callNo, cacheAtStart, requestsAtStart>>
    /\ UNCHANGED outsideCache

\* a later call of info_nearby_op in the same ./data directory
CallAgain ==
    /\ hpc = "returned"
    /\ callNo + 1 \in LaterCalls
    /\ callNo' = callNo + 1
    /\ \E c \in CityArgs :
           /\ cityArg' = c
           /\ city' = c
    /\ hpc' = "start"
    /\ cacheAtStart' = cache
    /\ requestsAtStart' = requests
    /\ UNCHANGED <<elements, eidx, info_nearby, cpc, mappedLog>>
    /\ UNCHANGED <<cache, returned, requests>>
    /\ UNCHANGED outsideCache

InitCache ==
    /\ hpc = "start"
    /\ cityArg \in CityArgs
    /\ city = cityArg
    /\ cache \in CacheFiles
    /\ cacheAtStart = cache
    /\ returned = <<>>
    /\ requests = 0
    /\ requestsAtStart = 0
    /\ callNo = 1
    /\ elements = <<>>
    /\ eidx = 1
    /\ info_nearby = <<>>
    /\ cpc = "idle"
    /\ mappedLog = <<>>
    /\ gimpl = "scripts"
    /\ gpc = "idle"
    /\ gcategories = <<>>
    /\ gX_by_category = <<>>
    /\ PipelineIdle
    /\ IndexIdle
    /\ ClientIdle

NextCache == ReadCache \/ RequestOverpass \/ ClassifyElement \/ WriteCacheAndReturn \/ CallAgain

SpecCache == InitCache /\ [][NextCache]_vars

-----------------------------------------------------------------------------
(* Claims about the cache of info_nearby_op, checked under SpecCache *)

\* the call found a table in the file of its city argument
CacheHit ==
    /\ cityArg # "None"
    /\ cityArg \in DOMAIN cacheAtStart
    /\ requests = requestsAtStart

\* C29: a call whose city has a readable cache file returns the cached table
\* and sends no request; every other call sends one request and, when a city
\* is known at its end, leaves the list collected so far in that city's file,
\* also after a status other than 200 or an exception, and leaves the files
\* alone when no city is known
C29_CacheProtocol ==
    hpc = "returned" =>
        /\ (cityArg # "None" /\ ReadOutcomes(cacheAtStart, cityArg) = {"table"}) => CacheHit
        /\ CacheHit =>
               /\ returned = cacheAtStart[cityArg]
               /\ cache = cacheAtStart
        /\ ~CacheHit =>
               /\ requests = requestsAtStart + 1
               /\ returned = info_nearby
               /\ cache = IF city # "None"
                          THEN With(cacheAtStart, city, info_nearby)
                          ELSE cacheAtStart

\* a first call without a city argument is interrupted by an exception after
\* one row, the city was inferred from the tags, and the later call for that
\* city gets the one row from the cache without a second request
C29_Witness ==
    /\ hpc = "returned"
    /\ callNo = 2
    /\ cityArg = "Kazan"
    /\ cpc = "except"
    /\ requests = 1
    /\ requestsAtStart = 1
    /\ Len(returned) = 1
    /\ returned = info_nearby
    /\ "Kazan" \in DOMAIN cache
    /\ returned = cache["Kazan"]

====
